---- MODULE Spec2Model ----
(***************************************************************************)
(* Reward policies of the load-balance environment                        *)
(* (park/envs/load_balance/reward_calculators.py).                         *)
(*                                                                         *)
(* The environment is a snapshot read by the policies.  Real numbers are   *)
(* exact rationals <<numerator, denominator>> in lowest terms with a       *)
(* positive denominator.  A call of get_reward yields a record             *)
(* [exc, val, divided]: exc is "none" for a normal return, else the name   *)
(* of the exception raised; divided tells whether the normalising          *)
(* division was executed.                                                  *)
(***************************************************************************)
EXTENDS Integers, Sequences, FiniteSets, TLC

VARIABLES env, calculator, call

vars == <<env, calculator, call>>

\* Python's None (also: no object constructed yet, no call made yet)
None == [none |-> TRUE]

\* ---------------------------------------------------------------- bounds
MaxTime == 1
MaxSize == 2
\* number of jobs present in one snapshot of the environment
MaxJobs == 2

\* service rate of each server of the cluster (work units per time unit)
service_rates == <<1, 2>>
NumServers == Len(service_rates)

\* ------------------------------------------------------------- rationals
RECURSIVE GCD(_, _)
GCD(a, b) == IF b = 0 THEN a ELSE GCD(b, a % b)

Abs(x) == IF x < 0 THEN -x ELSE x

Rat(n, d) ==
    LET g == GCD(Abs(n), Abs(d))
        s == IF d < 0 THEN -1 ELSE 1
    IN  <<(s * n) \div g, (s * d) \div g>>

R(n) == <<n, 1>>
Zero == R(0)
RAdd(a, b) == Rat(a[1] * b[2] + b[1] * a[2], a[2] * b[2])
RMul(a, b) == Rat(a[1] * b[1], a[2] * b[2])
RNeg(a) == <<-a[1], a[2]>>
RSub(a, b) == RAdd(a, RNeg(b))
RDiv(a, b) == Rat(a[1] * b[2], a[2] * b[1])
RLeq(a, b) == a[1] * b[2] <= b[1] * a[2]
RLess(a, b) == a[1] * b[2] < b[1] * a[2]

\* sum and maximum of the first n entries of a sequence of rationals
RECURSIVE RSumTo(_, _)
RSumTo(s, n) == IF n = 0 THEN Zero ELSE RAdd(RSumTo(s, n - 1), s[n])
RSum(s) == RSumTo(s, Len(s))

RECURSIVE RMaxTo(_, _)
RMaxTo(s, n) ==
    IF n = 1 THEN s[1]
    ELSE LET m == RMaxTo(s, n - 1) IN IF RLess(m, s[n]) THEN s[n] ELSE m
RMaxSeq(s) == RMaxTo(s, Len(s))

\* ------------------------------------------------------- call outcomes
Return(v) == [exc |-> "none", val |-> v, divided |-> FALSE]
Raise(e) == [exc |-> e, val |-> Zero, divided |-> FALSE]

\* Python indexing of a sequence of length n: i in -n .. n-1 is accepted,
\* a negative i counting from the end; anything else raises IndexError.
IndexOk(n, i) == -n <= i /\ i < n
PyIndex(s, i) == IF i >= 0 THEN s[i + 1] ELSE s[Len(s) + i + 1]

\* ----------------------------------------------------------- environment
SeqUpTo(S, k) == UNION {[1..m -> S] : m \in 0..k}

Job == [size : 1..MaxSize]
\* the job in service: only its finish_time is read by the policies
RunningJob == [size : {1}, finish_time : 0..MaxTime]

\* the servers with jobs c[i] in service and queues q[i]
Servers(c, q) ==
    [i \in 1..NumServers |->
        [service_rate |-> service_rates[i], curr_job |-> c[i], queue |-> q[i]]]

\* number of jobs on the servers
ServerJobs(srv) ==
    LET n == [i \in 1..NumServers |->
                 Len(srv[i].queue) + (IF srv[i].curr_job = None THEN 0 ELSE 1)]
        sum[i \in 0..NumServers] == IF i = 0 THEN 0 ELSE sum[i - 1] + n[i]
    IN  sum[NumServers]

\* number of jobs in snapshot e
JobCount(e) ==
    ServerJobs(e.servers) + Len(e.finished_jobs)
        + (IF e.incoming_job = None THEN 0 ELSE 1)

\* the snapshots of the environment holding at most MaxJobs jobs
Env ==
    UNION {
        LET srv == Servers(c, q)
        IN  {e \in [servers : {srv},
                    wall_time : [curr_time : 0..MaxTime],
                    incoming_job : {None} \cup Job,
                    finished_jobs : SeqUpTo(Job, MaxJobs - ServerJobs(srv)),
                    num_stream_jobs_left : 0..1] :
                JobCount(e) <= MaxJobs}
        : c \in [1..NumServers -> {None} \cup RunningJob],
          q \in [1..NumServers -> SeqUpTo(Job, MaxJobs)]}

\* remaining processing time of the job in service on server s
Remaining(e, s) ==
    IF s.curr_job # None /\ s.curr_job.finish_time > e.wall_time.curr_time
    THEN R(s.curr_job.finish_time - e.wall_time.curr_time)
    ELSE Zero

\* env.observe(): one load per server, then the size of the incoming job
observe(e) ==
    [i \in 1..(NumServers + 1) |->
        IF i <= NumServers
        THEN LET s == e.servers[i]
             IN  RAdd(Remaining(e, s),
                      RSum([k \in 1..Len(s.queue) |->
                               Rat(s.queue[k].size, s.service_rate)]))
        ELSE IF e.incoming_job = None THEN Zero ELSE R(e.incoming_job.size)]

\* ------------------------------------------------------ reward policies
\* mutant: the waiting time is returned without the negation
WaitingTimeReward_get_reward_Positive(e, action) ==
    LET state == observe(e)
    IN  IF ~IndexOk(Len(state), action) THEN Raise("IndexError")
        ELSE Return(PyIndex(state, action))

\* mutant: the index is reduced modulo the length of the observation
WaitingTimeReward_get_reward_Wrapping(e, action) ==
    LET state == observe(e)
    IN  Return(RMul(R(-1), state[(action % Len(state)) + 1]))

\* WaitingTimeReward.get_reward
WaitingTimeReward_get_reward(e, action) ==
    LET state == observe(e)
    IN  IF ~IndexOk(Len(state), action) THEN Raise("IndexError")
        ELSE LET waitTime == PyIndex(state, action)
             IN  Return(RMul(R(-1), waitTime))

\* mutant: the service time is taken on the first server, not servers[action]
CompletionTimeReward_get_reward_FirstServerRate(e, action) ==
    LET super == WaitingTimeReward_get_reward(e, action)
    IN  IF super.exc # "none" THEN super
        ELSE IF e.incoming_job = None THEN Raise("AttributeError")
        ELSE IF ~IndexOk(Len(e.servers), action) THEN Raise("IndexError")
        ELSE LET wait_time == RNeg(super.val)
                 complete_time ==
                     RAdd(wait_time,
                          RDiv(R(e.incoming_job.size),
                               R(e.servers[1].service_rate)))
             IN  Return(RMul(R(-1), complete_time))

\* CompletionTimeReward.get_reward
CompletionTimeReward_get_reward(e, action) ==
    LET super == WaitingTimeReward_get_reward(e, action)
    IN  IF super.exc # "none" THEN super
        ELSE IF e.incoming_job = None THEN Raise("AttributeError")
        ELSE IF ~IndexOk(Len(e.servers), action) THEN Raise("IndexError")
        ELSE LET wait_time == RNeg(super.val)
                 complete_time ==
                     RAdd(wait_time,
                          RDiv(R(e.incoming_job.size),
                               R(PyIndex(e.servers, action).service_rate)))
             IN  Return(RMul(R(-1), complete_time))

\* MakespanReward.get_reward, terminal branch: the time at which all jobs
\* would be complete (action is an accepted index of the servers)
finish_time(e, action) ==
    LET state == observe(e)
        job_size == state[Len(state)]
        \* load of queued jobs of each server
        queue_load ==
            [i \in 1..Len(e.servers) |->
                RSum([k \in 1..Len(e.servers[i].queue) |->
                         R(e.servers[i].queue[k].size)])]
        \* server load in total
        server_load ==
            [i \in 1..Len(e.servers) |-> RAdd(state[i], queue_load[i])]
        job_duration ==
            RDiv(job_size, R(PyIndex(e.servers, action).service_rate))
        pos == IF action >= 0 THEN action + 1
               ELSE Len(server_load) + action + 1
        \* server load after taking given action
        loaded ==
            [i \in 1..Len(server_load) |->
                IF i = pos THEN RAdd(server_load[i], job_duration)
                ELSE server_load[i]]
    IN  RAdd(RMaxSeq(loaded), R(e.wall_time.curr_time))

\* mutant: the last arrival is detected by incoming_job being None
MakespanReward_get_reward_IncomingNone(e, action) ==
    CASE e.incoming_job # None -> Return(Zero)
      [] e.incoming_job = None /\ ~IndexOk(Len(e.servers), action) ->
             Raise("IndexError")
      [] OTHER -> Return(RMul(R(-1), finish_time(e, action)))

\* mutant: the finish time is returned without the negation
MakespanReward_get_reward_Unsigned(e, action) ==
    CASE e.num_stream_jobs_left # 0 -> Return(Zero)
      [] e.num_stream_jobs_left = 0 /\ ~IndexOk(Len(e.servers), action) ->
             Raise("IndexError")
      [] OTHER -> Return(finish_time(e, action))

\* MakespanReward.get_reward
MakespanReward_get_reward(e, action) ==
    CASE e.num_stream_jobs_left # 0 -> Return(Zero)
      [] e.num_stream_jobs_left = 0 /\ ~IndexOk(Len(e.servers), action) ->
             Raise("IndexError")
      [] OTHER -> Return(RMul(R(-1), finish_time(e, action)))

\* reduce(lambda acc, elem: acc + elem, [job.size ...], 0)
norm(e) == RSum([k \in 1..Len(e.finished_jobs) |-> R(e.finished_jobs[k].size)])

\* mutant: the quotient is returned without the negation
NormalizedMakespanReward_get_reward_NoNegation(e, action) ==
    LET reward == MakespanReward_get_reward(e, action)
    IN  IF reward.exc # "none" THEN reward
        ELSE IF reward.val # Zero
        THEN [exc |-> "none", val |-> RDiv(norm(e), reward.val),
              divided |-> TRUE]
        ELSE reward

\* mutant: the division is guarded by the terminal test, not by reward != 0
NormalizedMakespanReward_get_reward_Unguarded(e, action) ==
    LET reward == MakespanReward_get_reward(e, action)
    IN  IF reward.exc # "none" THEN reward
        ELSE IF e.num_stream_jobs_left = 0
        THEN IF reward.val = Zero
             THEN [exc |-> "ZeroDivisionError", val |-> Zero, divided |-> TRUE]
             ELSE [exc |-> "none",
                   val |-> RDiv(RMul(R(-1), norm(e)), reward.val),
                   divided |-> TRUE]
        ELSE reward

\* NormalizedMakespanReward.get_reward
NormalizedMakespanReward_get_reward(e, action) ==
    LET reward == MakespanReward_get_reward(e, action)
    IN  IF reward.exc # "none" THEN reward
        ELSE IF reward.val # Zero
        THEN [exc |-> "none",
              val |-> RDiv(RMul(R(-1), norm(e)), reward.val),
              divided |-> TRUE]
        ELSE reward

\* --------------------------------------------------------------- facade
OBJECTIVE_NAMES == <<"makespan", "waitingTime", "completionTime">>

Contains(s, x) == \E i \in 1..Len(s) : s[i] = x

\* a policy object constructed on its own: BaseRewardCalculator.__init__
BaseRewardCalculator_init(cls) ==
    [cls |-> cls, objective |-> None, exc |-> "none", names |-> <<>>,
     reward_calculator |-> None]

\* mutant: 'makespan' binds the plain MakespanReward
RewardCalculator_init_PlainMakespan(objective) ==
    IF ~Contains(OBJECTIVE_NAMES, objective)
    THEN [cls |-> "RewardCalculator", objective |-> objective,
          exc |-> "ValueError", names |-> OBJECTIVE_NAMES,
          reward_calculator |-> None]
    ELSE [cls |-> "RewardCalculator", objective |-> objective,
          exc |-> "none", names |-> <<>>,
          reward_calculator |->
              IF objective = "makespan" THEN "MakespanReward"
              ELSE IF objective = "waitingTime" THEN "WaitingTimeReward"
              ELSE "CompletionTimeReward"]

\* RewardCalculator.__init__
RewardCalculator_init(objective) ==
    IF ~Contains(OBJECTIVE_NAMES, objective)
    THEN [cls |-> "RewardCalculator", objective |-> objective,
          exc |-> "ValueError", names |-> OBJECTIVE_NAMES,
          reward_calculator |-> None]
    ELSE [cls |-> "RewardCalculator", objective |-> objective,
          exc |-> "none", names |-> <<>>,
          reward_calculator |->
              IF objective = "makespan" THEN "NormalizedMakespanReward"
              ELSE IF objective = "waitingTime" THEN "WaitingTimeReward"
              ELSE IF objective = "completionTime" THEN "CompletionTimeReward"
              ELSE None]

\* get_reward of a policy object of class cls
get_reward(cls, e, action) ==
    CASE cls = "WaitingTimeReward" -> WaitingTimeReward_get_reward(e, action)
      [] cls = "CompletionTimeReward" ->
             CompletionTimeReward_get_reward(e, action)
      [] cls = "MakespanReward" -> MakespanReward_get_reward(e, action)
      [] cls = "NormalizedMakespanReward" ->
             NormalizedMakespanReward_get_reward(e, action)

\* RewardCalculator.get_reward
RewardCalculator_get_reward(c, e, act) == get_reward(c.reward_calculator, e, act)

\* the policy class that answers a call on object c
Policy(c) == IF c.cls = "RewardCalculator" THEN c.reward_calculator ELSE c.cls

\* ---------------------------------------------------------- state machine
ObjectiveInputs == {"makespan", "waitingTime", "completionTime", "Makespan", ""}
Actions == -(NumServers + 2) .. (NumServers + 1)
ValidActions == 0 .. (NumServers - 1)

Init ==
    /\ env \in Env
    /\ calculator = None
    /\ call = None

NewRewardCalculator ==
    /\ calculator = None
    /\ \E objective \in ObjectiveInputs :
           calculator' = RewardCalculator_init(objective)
    /\ UNCHANGED <<env, call>>

NewMakespanReward ==
    /\ calculator = None
    /\ calculator' = BaseRewardCalculator_init("MakespanReward")
    /\ UNCHANGED <<env, call>>

\* mutant: the call consumes the finished-jobs record it sums
GetReward_Consuming ==
    /\ calculator # None
    /\ calculator.exc = "none"
    /\ \E action \in Actions :
           call' = [action |-> action,
                    result |-> IF calculator.cls = "RewardCalculator"
                               THEN RewardCalculator_get_reward(calculator, env, action)
                               ELSE get_reward(calculator.cls, env, action)]
    /\ env' = [env EXCEPT !.finished_jobs = <<>>]
    /\ UNCHANGED calculator

GetReward ==
    /\ calculator # None
    /\ calculator.exc = "none"
    /\ \E action \in Actions :
           call' = [action |-> action,
                    result |-> IF calculator.cls = "RewardCalculator"
                               THEN RewardCalculator_get_reward(calculator, env, action)
                               ELSE get_reward(calculator.cls, env, action)]
    /\ UNCHANGED <<env, calculator>>

Next == NewRewardCalculator \/ NewMakespanReward \/ GetReward

Spec == Init /\ [][Next]_vars

\* ------------------------------------------------------------ properties
\* a call has been made and was answered by policy class cls
Called(cls) == call # None /\ Policy(calculator) = cls
ValidCall == call.action \in ValidActions

TotalFinishedWork(e) ==
    RSum([k \in 1..Len(e.finished_jobs) |-> R(e.finished_jobs[k].size)])

RMaxOf(S) == CHOOSE m \in S : \A x \in S : RLeq(x, m)

\* load of server i as the makespan policy counts it once the incoming job
\* is placed on server a (0-based): the observed load, the sizes of the
\* queued jobs, and the incoming job's duration on the chosen server
CountedLoad(e, i, a) ==
    LET s == e.servers[i]
        queued == RSum([k \in 1..Len(s.queue) |-> R(s.queue[k].size)])
        extra == IF i = a + 1
                 THEN Rat(observe(e)[NumServers + 1][1], s.service_rate)
                 ELSE Zero
    IN  RAdd(RAdd(observe(e)[i], queued), extra)

ProjectedFinish(e, a) ==
    RAdd(R(e.wall_time.curr_time),
         RMaxOf({CountedLoad(e, i, a) : i \in 1..NumServers}))

\* time server i needs to drain once the incoming job is placed on server a
DrainTime(e, i, a) ==
    LET s == e.servers[i]
        queued == RSum([k \in 1..Len(s.queue) |->
                           Rat(s.queue[k].size, s.service_rate)])
        extra == IF i = a + 1 /\ e.incoming_job # None
                 THEN Rat(e.incoming_job.size, s.service_rate)
                 ELSE Zero
    IN  RAdd(RAdd(Remaining(e, s), queued), extra)

CompletionOfAll(e, a) ==
    RAdd(R(e.wall_time.curr_time),
         RMaxOf({DrainTime(e, i, a) : i \in 1..NumServers}))

ValidNames == {"makespan", "waitingTime", "completionTime"}

DocumentedPolicy(o) ==
    CASE o = "makespan" -> "NormalizedMakespanReward"
      [] o = "waitingTime" -> "WaitingTimeReward"
      [] o = "completionTime" -> "CompletionTimeReward"

\* C1: constructing a RewardCalculator with a name of the valid set binds
\* the documented policy; with any other string it fails with a ValueError
\* that lists the valid set, and no policy is bound.
C1_Construction ==
    (calculator # None /\ calculator.cls = "RewardCalculator") =>
        IF calculator.objective \in ValidNames
        THEN /\ calculator.exc = "none"
             /\ calculator.reward_calculator =
                    DocumentedPolicy(calculator.objective)
        ELSE /\ calculator.exc = "ValueError"
             /\ {calculator.names[i] : i \in 1..Len(calculator.names)} =
                    ValidNames
             /\ calculator.reward_calculator = None

C1_Witness ==
    /\ calculator # None
    /\ calculator.cls = "RewardCalculator"
    /\ calculator.objective = "Makespan"
    /\ calculator.exc = "ValueError"

IdleServer(e, s) ==
    s.curr_job = None \/ s.curr_job.finish_time <= e.wall_time.curr_time

\* C4: the waiting-time reward of a valid action is <= 0, and is 0 exactly
\* when the target server is idle with an empty queue.
C4_WaitingNonPositive ==
    (Called("WaitingTimeReward") /\ ValidCall) =>
        LET s == env.servers[call.action + 1]
        IN  /\ call.result.exc = "none"
            /\ RLeq(call.result.val, Zero)
            /\ (call.result.val = Zero) <=>
                   (IdleServer(env, s) /\ s.queue = <<>>)

C4_Witness ==
    /\ Called("WaitingTimeReward") /\ ValidCall
    /\ env.servers[call.action + 1].curr_job # None
    /\ env.servers[call.action + 1].queue = <<>>
    /\ call.result.val = Zero

\* C5: with an incoming job and a valid action, the completion-time reward
\* is <= the waiting-time reward of the same state and action, and the
\* difference is exactly incoming_job.size / servers[action].service_rate.
C5_CompletionBelowWaiting ==
    (Called("CompletionTimeReward") /\ ValidCall /\ env.incoming_job # None) =>
        LET w == WaitingTimeReward_get_reward(env, call.action)
            s == env.servers[call.action + 1]
        IN  /\ call.result.exc = "none"
            /\ RLeq(call.result.val, w.val)
            /\ RSub(w.val, call.result.val) =
                   Rat(env.incoming_job.size, s.service_rate)

C5_Witness ==
    /\ Called("CompletionTimeReward") /\ ValidCall
    /\ env.incoming_job # None
    /\ call.action = 1
    /\ env.servers[2].queue # <<>>
    /\ call.result.exc = "none"

\* C6 as stated: an action that is not a valid server index makes
\* get_reward of every policy end in an out-of-bounds error.
C6_Original ==
    (call # None /\ ~ValidCall) => call.result.exc = "IndexError"

\* C6 amended: an action outside the range Python accepts as an index ends
\* in an out-of-bounds error -- outside -(n+1) .. n for WaitingTimeReward
\* (it indexes the observation of n+1 entries), outside -n .. n-1 for
\* CompletionTimeReward with an incoming job and for the makespan policies
\* at a call with num_stream_jobs_left = 0 (they index the n servers); the
\* makespan policies return 0 for any action while
\* num_stream_jobs_left # 0.
C6_OutOfRange ==
    call # None =>
        LET a == call.action
            cls == Policy(calculator)
            obsOk == -(NumServers + 1) <= a /\ a <= NumServers
            srvOk == -NumServers <= a /\ a <= NumServers - 1
        IN  /\ cls = "WaitingTimeReward" =>
                   ((call.result.exc = "IndexError") <=> ~obsOk)
            /\ (cls = "CompletionTimeReward" /\ env.incoming_job # None) =>
                   ((call.result.exc = "IndexError") <=> ~srvOk)
            /\ cls \in {"MakespanReward", "NormalizedMakespanReward"} =>
                   IF env.num_stream_jobs_left = 0
                   THEN (call.result.exc = "IndexError") <=> ~srvOk
                   ELSE call.result.exc = "none" /\ call.result.val = Zero

C6_Witness ==
    /\ Called("WaitingTimeReward")
    /\ call.action = NumServers + 1
    /\ call.result.exc = "IndexError"

\* the makespan of the terminal call resolves to exactly zero
ZeroMakespanCall ==
    /\ Called("NormalizedMakespanReward") /\ ValidCall
    /\ env.num_stream_jobs_left = 0
    /\ ProjectedFinish(env, call.action) = Zero

C9_Original ==
    (Called("MakespanReward") /\ ValidCall /\ env.num_stream_jobs_left = 0
        /\ env.incoming_job # None) =>
        /\ call.result.exc = "none"
        /\ RNeg(call.result.val) = CompletionOfAll(env, call.action)

\* C10: with an incoming job (positive size), the makespan reward of a
\* valid action is strictly negative when num_stream_jobs_left = 0 and 0
\* otherwise; the normalized reward never ends in a division by zero, is
\* >= 0, and with an incoming job divides exactly at the terminal calls.
C10_NoDivisionByZero ==
    /\ (Called("MakespanReward") /\ ValidCall /\ env.incoming_job # None) =>
           /\ call.result.exc = "none"
           /\ IF env.num_stream_jobs_left = 0
              THEN RLess(call.result.val, Zero)
              ELSE call.result.val = Zero
    /\ (Called("NormalizedMakespanReward") /\ ValidCall) =>
           /\ call.result.exc = "none"
           /\ RLeq(Zero, call.result.val)
           /\ env.incoming_job # None =>
                  (call.result.divided <=> env.num_stream_jobs_left = 0)

C10_Witness ==
    /\ Called("NormalizedMakespanReward") /\ ValidCall
    /\ env.incoming_job # None
    /\ call.result.divided
    /\ env.finished_jobs = <<>>
====
